---- MODULE Spec2Model ----
(***************************************************************************)
(* A model of ntk::Mesh (src/ntk/mesh/mesh.cpp): the attribute store, the  *)
(* topology cleanup (removeDuplicatedVertices, removeIsolatedVertices),    *)
(* the builders and addMesh, and the PLY codec.                            *)
(*                                                                         *)
(* Floats are modelled by integers (every value used is exactly            *)
(* representable as a float32) plus one code, NaN, for the not-a-number    *)
(* value; comparisons go through FLess / FEq, which give the IEEE answers  *)
(* for NaN.  Vertex indices are 0-based as in the source; sequences are    *)
(* 1-based, so vertices[i] of the source is vertices[i + 1] here.          *)
(***************************************************************************)
EXTENDS Integers, Sequences, FiniteSets, TLC

VARIABLES
    vertices,      \* std::vector<cv::Point3f>
    colors,        \* std::vector<cv::Vec3b>
    normals,       \* std::vector<cv::Point3f>
    texcoords,     \* std::vector<cv::Point2f>
    faces,         \* std::vector<Face>, each <<i0, i1, i2>>
    vertex_alias,  \* the alias map built by the last removeDuplicatedVertices
    ops,           \* names of the operations called so far, in order
    snaps,         \* snaps[k] is the mesh before the k-th call; the last is the mesh now
    arg,           \* the argument of the last call
    error,         \* "" or the message the last call failed with
    running,       \* "", the name of a call that never returns, or Undefined
    mesh_file,     \* the FILE* of the last loadFromPlyFile: "none", "open", "closed"
    disk           \* the file loadFromPlyFile reads and saveToPlyFile writes

vars == <<vertices, colors, normals, texcoords, faces, vertex_alias, ops, snaps,
          arg, error, running, mesh_file, disk>>

-----------------------------------------------------------------------------
(* Bounds of the model. *)

MaxVerts == 3
MaxFaces == 1
MaxOps == 4
MaxBuildOps == 3
MaxOperandVerts == 2
MaxPlyVerts == 2
MaxPlyOps == 3

-----------------------------------------------------------------------------
(* Floats and points. *)

NaN == -1000000000

FLess(a, b) == a # NaN /\ b # NaN /\ a < b

FEq(a, b) == a # NaN /\ b # NaN /\ a = b

fisnan(a) == a = NaN

infinite_point == <<NaN, NaN, NaN>>

isnan(p) == fisnan(p[1]) \/ fisnan(p[2]) \/ fisnan(p[3])

\* cv::Point3f operator==: coordinate-wise float equality.
PointEq(p, q) == FEq(p[1], q[1]) /\ FEq(p[2], q[2]) /\ FEq(p[3], q[3])

\* operator< on cv::Point3f: lexicographic on x, then y, then z.
PointLess(p, q) ==
    IF ~FEq(p[1], q[1]) THEN FLess(p[1], q[1])
    ELSE IF ~FEq(p[2], q[2]) THEN FLess(p[2], q[2])
    ELSE FLess(p[3], q[3])

-----------------------------------------------------------------------------
(* The mesh as a value, and the attribute-presence queries. *)

MeshOf(v, c, n, t, f) ==
    [vertices |-> v, colors |-> c, normals |-> n, texcoords |-> t, faces |-> f]

Mesh == MeshOf(vertices, colors, normals, texcoords, faces)

EmptyMesh == MeshOf(<<>>, <<>>, <<>>, <<>>, <<>>)

hasColors(m) == Len(m.colors) = Len(m.vertices)

hasNormals(m) == Len(m.normals) = Len(m.vertices)

hasTexcoords(m) == Len(m.texcoords) = Len(m.vertices)

hasFaces(m) == Len(m.faces) > 0

\* The set of vertex indices a face list refers to.
Referenced(f) == {f[k][c] : k \in 1..Len(f), c \in 1..3}

InRange(m) == Referenced(m.faces) \subseteq 0..(Len(m.vertices) - 1)

AllFinite(m) == \A k \in 1..Len(m.vertices) : ~isnan(m.vertices[k])

-----------------------------------------------------------------------------
(* removeDuplicatedVertices *)

\* What running holds once a call has run into undefined behaviour (a read or
\* write outside an array, std::sort with a comparator that is no strict weak
\* ordering): the call's effect is one of the outcomes listed for it, and nothing
\* is defined about the program from there on.
Undefined == "undefined behaviour"

\* The orders of the indices 0..n-1, for each vertex count a run can reach.
AllPerms ==
    [n \in 0..MaxVerts |->
        {p \in [1..n -> 0..(n - 1)] : \A a, b \in 1..n : a # b => p[a] # p[b]}]

Perms(n) == AllPerms[n]

\* VertexComparator: compares two indices by the positions they name.
VertexComparator(v, i1, i2) == PointLess(v[i1 + 1], v[i2 + 1])

\* The comparator's verdict on every pair of indices of v.
Verdicts(v) ==
    [a \in 0..(Len(v) - 1) |-> [b \in 0..(Len(v) - 1) |-> VertexComparator(v, a, b)]]

\* Whether the comparator (given by its verdicts) is a strict weak ordering on
\* the indices (std::sort's precondition): incomparability must be transitive.
Incomparable(less, a, b) == ~less[a][b] /\ ~less[b][a]

StrictWeak(less) ==
    \A a, b, c \in DOMAIN less :
        Incomparable(less, a, b) /\ Incomparable(less, b, c) => Incomparable(less, a, c)

\* What std::sort may leave in ordered_indices.  The sort is not stable, so
\* equal positions come out in any order; with a comparator that is no strict
\* weak ordering (a NaN position among finite ones) the call is undefined and
\* any permutation may come out.
SortOutcomes(v) ==
    LET less == Verdicts(v)
    IN  IF StrictWeak(less)
        THEN {p \in Perms(Len(v)) : \A a, b \in 1..Len(v) : a < b => ~less[p[b]][p[a]]}
        ELSE Perms(Len(v))

\* (mutant) the inner while loop without the overwrite of the duplicate's position.
RECURSIVE AliasRun_NoSentinel(_, _, _, _, _)
AliasRun_NoSentinel(oi, i, j, v, alias) ==
    IF j < Len(oi) /\ PointEq(v[oi[i + 1] + 1], v[oi[j + 1] + 1])
    THEN AliasRun_NoSentinel(oi, i, j + 1, v,
                  [k \in DOMAIN alias \cup {oi[j + 1]} |->
                      IF k = oi[j + 1] THEN oi[i + 1] ELSE alias[k]])
    ELSE [j |-> j, v |-> v, alias |-> alias]

\* The inner while loop of the scan: from j on, alias every index whose position
\* equals that of ordered_indices[i] and overwrite its position.
RECURSIVE AliasRun(_, _, _, _, _)
AliasRun(oi, i, j, v, alias) ==
    IF j < Len(oi) /\ PointEq(v[oi[i + 1] + 1], v[oi[j + 1] + 1])
    THEN AliasRun(oi, i, j + 1,
                  [v EXCEPT ![oi[j + 1] + 1] = infinite_point],
                  [k \in DOMAIN alias \cup {oi[j + 1]} |->
                      IF k = oi[j + 1] THEN oi[i + 1] ELSE alias[k]])
    ELSE [j |-> j, v |-> v, alias |-> alias]

\* The outer for loop, for a non-empty ordered_indices.
RECURSIVE ScanRuns(_, _, _, _)
ScanRuns(oi, i, v, alias) ==
    IF i < Len(oi) - 1
    THEN LET r == AliasRun(oi, i, i + 1, v, alias)
         IN  ScanRuns(oi, r.j, r.v, r.alias)
    ELSE [v |-> v, alias |-> alias]

\* (mutant) the face pass left out: no face index is rewritten.
RewriteAliased_Skipped(f, alias) == f

\* The face pass: every index found in vertex_alias is replaced.
RewriteAliased(f, alias) ==
    [k \in 1..Len(f) |->
        [c \in 1..3 |-> IF f[k][c] \in DOMAIN alias THEN alias[f[k][c]] ELSE f[k][c]]]

Record(name, a, m) ==
    /\ ops' = Append(ops, name)
    /\ snaps' = Append(snaps, m)
    /\ arg' = a

\* What the sort and the scan may leave: the positions and the alias map, for
\* each order std::sort may produce.
ScanOutcomes(v) == {ScanRuns(oi, 0, v, <<>>) : oi \in SortOutcomes(v)}

\* Whether the loop bound ordered_indices.size() - 1, computed in size_t, wraps
\* around to SIZE_MAX: it does when the mathematical value is negative.
BoundWraps(n) == n - 1 < 0

\* Whether the for loop runs its body at least once: i = 0 is compared with the
\* bound as a size_t.
EntersScan(n) == BoundWraps(n) \/ 0 < n - 1

removeDuplicatedVertices ==
    /\ running = ""
    /\ IF BoundWraps(Len(vertices))
       THEN \* ordered_indices.size() - 1 is SIZE_MAX: the loop counts i up, touching
            \* nothing (j < 0 never holds), until the int i overflows, which is
            \* undefined: a wrapping build leaves the loop when i reaches -1, a build
            \* that assumes no overflow never leaves it.
            \E leaves \in BOOLEAN :
                /\ running' = IF leaves THEN "" ELSE "removeDuplicatedVertices"
                /\ vertex_alias' = <<>>
                /\ UNCHANGED <<vertices, faces>>
                /\ Record("removeDuplicatedVertices", <<>>, Mesh)
       ELSE \E r \in ScanOutcomes(vertices) :
                /\ vertices' = r.v
                /\ vertex_alias' = r.alias
                /\ faces' = RewriteAliased(faces, r.alias)
                /\ running' = IF StrictWeak(Verdicts(vertices)) THEN "" ELSE Undefined
                /\ Record("removeDuplicatedVertices", <<>>,
                          MeshOf(r.v, colors, normals, texcoords,
                                 RewriteAliased(faces, r.alias)))
    /\ error' = ""
    /\ UNCHANGED <<colors, normals, texcoords, mesh_file, disk>>

-----------------------------------------------------------------------------
(* removeIsolatedVertices *)

\* Values a read outside new_indices may yield: a negative one, an index, and one
\* past the end of any vertex array.
GarbageInts == {-1, 0, 2147483647}

\* cur_index after the first i vertices have been scanned.
RECURSIVE CurIndex(_, _)
CurIndex(v, i) ==
    IF i = 0 THEN 0
    ELSE CurIndex(v, i - 1) + (IF isnan(v[i]) THEN 0 ELSE 1)

\* new_indices, 0-based: NewIndices(v)[i + 1] is new_indices[i].
NewIndices(v) ==
    [i \in 1..Len(v) |-> IF isnan(v[i]) THEN -1 ELSE CurIndex(v, i - 1)]

\* new_mesh.<array>: the entries of a whose vertex survives, at their new index.
Compact(a, v) ==
    [n \in 1..CurIndex(v, Len(v)) |->
        a[CHOOSE i \in 1..Len(v) : NewIndices(v)[i] = n - 1]]

\* (mutant) the face pass left out: every face keeps its old indices.
RemapFaces_Unmapped(f, v, oob) == f

\* The face pass: new_indices[old_index], a read outside the vector when
\* old_index is not an index of it.
RemapFaces(f, v, oob) ==
    [k \in 1..Len(f) |->
        [c \in 1..3 |->
            IF f[k][c] \in 0..(Len(v) - 1) THEN NewIndices(v)[f[k][c] + 1]
            ELSE oob[f[k][c]]]]

removeIsolatedVertices ==
    /\ running = ""
    /\ \E oob \in [Referenced(faces) \ (0..(Len(vertices) - 1)) -> GarbageInts] :
        LET nv == Compact(vertices, vertices)
            nc == IF hasColors(Mesh) THEN Compact(colors, vertices) ELSE <<>>
            nn == IF hasNormals(Mesh) THEN Compact(normals, vertices) ELSE <<>>
            nt == IF hasTexcoords(Mesh) THEN Compact(texcoords, vertices) ELSE <<>>
            nf == RemapFaces(faces, vertices, oob)
        IN  /\ vertices' = nv
            /\ colors' = nc
            /\ normals' = nn
            /\ texcoords' = nt
            /\ faces' = nf
            /\ Record("removeIsolatedVertices", <<>>, MeshOf(nv, nc, nn, nt, nf))
    /\ running' = IF InRange(Mesh) THEN "" ELSE Undefined
    /\ error' = ""
    /\ UNCHANGED <<vertex_alias, mesh_file, disk>>

-----------------------------------------------------------------------------
(* The cleanup specification: any mesh with in-range faces, then cleanup    *)
(* passes in any order.                                                     *)

Positions == {<<0, 0, 0>>, <<0, 1, 0>>, infinite_point}

ColorAt(i) == <<i % 256, 0, 0>>

NormalAt(i) == <<i, 0, 1>>

TexcoordAt(i) == <<i, 1>>

\* The triangles over n vertices: three consecutive indices, cyclically.
Triangle(n, a) == <<a, (a + 1) % n, (a + 2) % n>>

InitMeshes ==
    UNION {
        {MeshOf(v,
                IF a THEN [i \in 1..n |-> ColorAt(i)] ELSE <<>>,
                IF a THEN [i \in 1..n |-> NormalAt(i)] ELSE <<>>,
                IF a THEN [i \in 1..n |-> TexcoordAt(i)] ELSE <<>>,
                f) :
            v \in [1..n -> Positions],
            f \in UNION {[1..nf -> {Triangle(n, a) : a \in 0..(n - 1)}] : nf \in 0..MaxFaces},
            a \in BOOLEAN}
        : n \in 0..MaxVerts}

Start(m) ==
    /\ vertices = m.vertices
    /\ colors = m.colors
    /\ normals = m.normals
    /\ texcoords = m.texcoords
    /\ faces = m.faces
    /\ vertex_alias = <<>>
    /\ ops = <<>>
    /\ snaps = <<m>>
    /\ arg = <<>>
    /\ error = ""
    /\ running = ""
    /\ mesh_file = "none"
    /\ disk = [kind |-> "missing"]

Init == \E m \in InitMeshes : Start(m)

\* The calls of one run are capped at MaxOps.
Next ==
    \/ Len(ops) < MaxOps /\ removeDuplicatedVertices
    \/ Len(ops) < MaxOps /\ removeIsolatedVertices

Spec == Init /\ [][Next]_vars

-----------------------------------------------------------------------------
(* Float arithmetic on the modelled values: NaN propagates. *)

FAdd(a, b) == IF fisnan(a) \/ fisnan(b) THEN NaN ELSE a + b

FSub(a, b) == IF fisnan(a) \/ fisnan(b) THEN NaN ELSE a - b

FMul(a, b) == IF fisnan(a) \/ fisnan(b) THEN NaN ELSE a * b

\* x / 2 for the even values the model uses.
FHalf(a) == IF fisnan(a) THEN NaN ELSE a \div 2

PAdd(p, q) == <<FAdd(p[1], q[1]), FAdd(p[2], q[2]), FAdd(p[3], q[3])>>

PSub(p, q) == <<FSub(p[1], q[1]), FSub(p[2], q[2]), FSub(p[3], q[3])>>

PScale(p, s) == <<FMul(p[1], s), FMul(p[2], s), FMul(p[3], s)>>

Cross(a, b) ==
    <<FSub(FMul(a[2], b[3]), FMul(a[3], b[2])),
      FSub(FMul(a[3], b[1]), FMul(a[1], b[3])),
      FSub(FMul(a[1], b[2]), FMul(a[2], b[1]))>>

NormSq(p) == FAdd(FAdd(FMul(p[1], p[1]), FMul(p[2], p[2])), FMul(p[3], p[3]))

-----------------------------------------------------------------------------
(* clear, addPointFromSurfel, addSurfel, addCube *)

clear ==
    /\ running = ""
    /\ vertices' = <<>>
    /\ colors' = <<>>
    /\ normals' = <<>>
    /\ texcoords' = <<>>
    /\ faces' = <<>>
    /\ Record("clear", <<>>, EmptyMesh)
    /\ error' = ""
    /\ UNCHANGED <<vertex_alias, running, mesh_file, disk>>

addPointFromSurfel(surfel) ==
    /\ running = ""
    /\ vertices' = Append(vertices, surfel.location)
    /\ colors' = Append(colors, surfel.color)
    /\ normals' = Append(normals, surfel.normal)
    /\ Record("addPointFromSurfel", surfel,
              MeshOf(Append(vertices, surfel.location), Append(colors, surfel.color),
                     Append(normals, surfel.normal), texcoords, faces))
    /\ error' = ""
    /\ UNCHANGED <<texcoords, faces, vertex_alias, running, mesh_file, disk>>

\* orthogonal_basis(v1, v2, normal) for the axis-aligned unit normals: two unit
\* vectors spanning the plane perpendicular to the normal.
orthogonal_basis(normal) ==
    IF normal[3] # 0 THEN [v1 |-> <<1, 0, 0>>, v2 |-> <<0, normal[3], 0>>]
    ELSE IF normal[1] # 0 THEN [v1 |-> <<0, 1, 0>>, v2 |-> <<0, 0, normal[1]>>]
    ELSE [v1 |-> <<0, 0, 1>>, v2 |-> <<normal[2], 0, 0>>]

\* The six vertices p0..p5 of the hexagon.
SurfelPoints(surfel) ==
    LET b == orthogonal_basis(surfel.normal)
        r == surfel.radius
        h == FHalf(surfel.radius)
        at(a, c) == PAdd(surfel.location, PAdd(PScale(b.v1, a), PScale(b.v2, c)))
    IN  <<at(r, 0), at(h, r), at(-h, r), at(-r, 0), at(-h, -r), at(h, -r)>>

\* The four faces of the hexagon, relative to its first vertex.
SurfelLinks == <<<<5, 0, 1>>, <<5, 1, 2>>, <<4, 5, 2>>, <<4, 2, 3>>>>

Shift(f, offset) ==
    [k \in 1..Len(f) |-> [c \in 1..3 |-> f[k][c] + offset]]

Repeat(x, n) == [k \in 1..n |-> x]

addSurfel(surfel) ==
    /\ running = ""
    \* ntk_assert(cv::norm(surfel.normal) > 0.9, ...)
    /\ 100 * NormSq(surfel.normal) > 81
    /\ LET idx == Len(vertices)
           nv == vertices \o SurfelPoints(surfel)
           nc == colors \o Repeat(surfel.color, 6)
           nn == normals \o Repeat(surfel.normal, 6)
           nf == faces \o Shift(SurfelLinks, idx)
       IN  /\ vertices' = nv
           /\ colors' = nc
           /\ normals' = nn
           /\ faces' = nf
           /\ Record("addSurfel", surfel, MeshOf(nv, nc, nn, texcoords, nf))
    /\ error' = ""
    /\ UNCHANGED <<texcoords, vertex_alias, running, mesh_file, disk>>

CubeLinks ==
    <<<<0, 1, 3>>, <<0, 3, 2>>, <<0, 5, 1>>, <<0, 4, 5>>, <<3, 1, 5>>, <<3, 5, 7>>,
      <<2, 3, 7>>, <<2, 7, 6>>, <<6, 5, 4>>, <<6, 7, 5>>, <<0, 2, 6>>, <<0, 6, 4>>>>

\* The eight corners in the order of the i, j, k loops.
CubePoints(center, sizes) ==
    LET xvals == <<FSub(center[1], FHalf(sizes[1])), FAdd(center[1], FHalf(sizes[1]))>>
        yvals == <<FSub(center[2], FHalf(sizes[2])), FAdd(center[2], FHalf(sizes[2]))>>
        zvals == <<FSub(center[3], FHalf(sizes[3])), FAdd(center[3], FHalf(sizes[3]))>>
    IN  [n \in 1..8 |->
            <<xvals[((n - 1) \div 4) + 1],
              yvals[(((n - 1) \div 2) % 2) + 1],
              zvals[((n - 1) % 2) + 1]>>]

addCube(center, sizes, color) ==
    /\ running = ""
    /\ LET has_colors == hasColors(Mesh)
           first_vertex_index == Len(vertices)
           nv == vertices \o CubePoints(center, sizes)
           nc == IF has_colors THEN colors \o Repeat(color, 8) ELSE colors
           nf == faces \o Shift(CubeLinks, first_vertex_index)
       IN  /\ vertices' = nv
           /\ colors' = nc
           /\ faces' = nf
           /\ Record("addCube", <<center, sizes, color>>,
                     MeshOf(nv, nc, normals, texcoords, nf))
    /\ error' = ""
    /\ UNCHANGED <<normals, texcoords, vertex_alias, running, mesh_file, disk>>

-----------------------------------------------------------------------------
(* addMesh *)

MergeError == "Cannot merge different kind of meshes."

\* The state a call leaves: the mesh m and the message it failed with, if any.
Leave(name, a, m, e) ==
    /\ vertices' = m.vertices
    /\ colors' = m.colors
    /\ normals' = m.normals
    /\ texcoords' = m.texcoords
    /\ faces' = m.faces
    /\ error' = e
    /\ Record(name, a, m)

\* (mutant) the operand's faces appended without the offset.
AppendFaces_NoOffset(f, rhs, offset) == f \o rhs.faces

\* The final loop: the operand's faces, each index increased by offset.
AppendFaces(f, rhs, offset) == f \o Shift(rhs.faces, offset)

\* The mesh and the error addMesh(rhs) leaves on a receiver m with vertices.
MergeInto(m, rhs) ==
    LET has_colors == hasColors(m)
        offset == Len(m.vertices)
        m1 == [m EXCEPT !.vertices = m.vertices \o rhs.vertices]
    IN  IF has_colors /\ ~hasColors(rhs)
        THEN [mesh |-> m1, error |-> MergeError]
        ELSE LET m2 == IF has_colors
                       THEN [m1 EXCEPT !.colors = m.colors \o rhs.colors]
                       ELSE m1
                 \* hasNormals() is called here, on the mesh with the operand's
                 \* vertices already appended.
                 has_normals == hasNormals(m2)
             IN  IF has_normals /\ ~hasNormals(rhs)
                 THEN [mesh |-> m2, error |-> MergeError]
                 ELSE LET m3 == IF has_normals
                                THEN [m2 EXCEPT !.normals = m.normals \o rhs.normals]
                                ELSE m2
                      IN  [mesh |-> [m3 EXCEPT !.faces = AppendFaces(m.faces, rhs, offset)],
                           error |-> ""]

addMesh(rhs) ==
    /\ running = ""
    /\ IF Len(vertices) < 1
       THEN Leave("addMesh", rhs, rhs, "")
       ELSE LET r == MergeInto(Mesh, rhs)
            IN  Leave("addMesh", rhs, r.mesh, r.error)
    /\ UNCHANGED <<vertex_alias, running, mesh_file, disk>>

-----------------------------------------------------------------------------
(* computeNormalsFromFaces *)

RECURSIVE Gcd(_, _)
Gcd(a, b) == IF b = 0 THEN a ELSE Gcd(b, a % b)

Abs(a) == IF a < 0 THEN -a ELSE a

\* ntk::normalize: the vector scaled to unit length.  A unit vector is
\* represented by its direction with the common factor of the coordinates
\* removed; the zero vector stays zero and NaN stays NaN.
normalize(v) ==
    IF fisnan(v[1]) \/ fisnan(v[2]) \/ fisnan(v[3]) THEN infinite_point
    ELSE LET g == Gcd(Gcd(Abs(v[1]), Abs(v[2])), Abs(v[3]))
         IN  IF g = 0 THEN v ELSE <<v[1] \div g, v[2] \div g, v[3] \div g>>

\* The accumulators after the first k faces.
RECURSIVE Accumulate(_, _, _)
Accumulate(v, f, k) ==
    IF k = 0 THEN Repeat(<<0, 0, 0>>, Len(v))
    ELSE LET acc == Accumulate(v, f, k - 1)
             face == f[k]
             v01 == PSub(v[face[2] + 1], v[face[1] + 1])
             v02 == PSub(v[face[3] + 1], v[face[1] + 1])
             n == Cross(v01, v02)
             hits(i) == Cardinality({c \in 1..3 : face[c] = i - 1})
         IN  [i \in 1..Len(v) |->
                 IF hits(i) = 0 THEN acc[i] ELSE PAdd(acc[i], PScale(n, hits(i)))]

\* What the normals may hold after reads and writes outside the arrays.
GarbageVecs == {<<0, 0, 0>>, infinite_point}

computeNormalsFromFaces ==
    /\ running = ""
    /\ IF InRange(Mesh)
       THEN /\ normals' = [i \in 1..Len(vertices) |->
                              normalize(Accumulate(vertices, faces, Len(faces))[i])]
            /\ running' = ""
       ELSE \* vertices[...] and normals[...] with an index outside the arrays
            /\ \E g \in [1..Len(vertices) -> GarbageVecs] : normals' = g
            /\ running' = Undefined
    /\ ops' = Append(ops, "computeNormalsFromFaces")
    /\ snaps' = Append(snaps, [Mesh EXCEPT !.normals = normals'])
    /\ arg' = <<>>
    /\ error' = ""
    /\ UNCHANGED <<vertices, colors, texcoords, faces, vertex_alias, mesh_file, disk>>

-----------------------------------------------------------------------------
(* The build specification: a mesh that starts empty, then any builder,     *)
(* merge, cleanup or normal estimation call.                                *)

Surfels ==
    {[location |-> <<0, 0, 0>>, normal |-> <<0, 0, 1>>, radius |-> 2, color |-> <<255, 0, 0>>],
     [location |-> <<0, 0, 0>>, normal |-> <<0, 0, 0>>, radius |-> 2, color |-> <<0, 255, 0>>]}

CubeArgs == {<<<<0, 0, 0>>, <<2, 2, 2>>, <<0, 0, 255>>>>}

\* The operands of addMesh: meshes of up to MaxOperandVerts vertices, with or
\* without colors, with or without normals, with or without a face.

OperandMeshes ==
    UNION {
        {MeshOf([i \in 1..n |-> <<i, 0, 0>>],
                IF c THEN [i \in 1..n |-> ColorAt(10 + i)] ELSE <<>>,
                IF m THEN [i \in 1..n |-> <<0, 1, 0>>] ELSE <<>>,
                <<>>,
                IF f /\ n > 0 THEN <<<<0, n - 1, 0>>>> ELSE <<>>) :
            c \in BOOLEAN, m \in BOOLEAN, f \in BOOLEAN}
        : n \in 0..MaxOperandVerts}

InitBuild == Start(EmptyMesh)

\* The calls of one run are capped at MaxBuildOps; removeDuplicatedVertices is
\* explored on the meshes of up to MaxVerts vertices.
NextBuild ==
    \/ Len(ops) < MaxBuildOps /\ clear
    \/ Len(ops) < MaxBuildOps /\ \E s \in Surfels : addPointFromSurfel(s)
    \/ Len(ops) < MaxBuildOps /\ \E s \in Surfels : addSurfel(s)
    \/ Len(ops) < MaxBuildOps /\ \E a \in CubeArgs : addCube(a[1], a[2], a[3])
    \/ Len(ops) < MaxBuildOps /\ \E rhs \in OperandMeshes : addMesh(rhs)
    \/ Len(ops) < MaxBuildOps /\ computeNormalsFromFaces
    \/ Len(ops) < MaxBuildOps /\ Len(vertices) <= MaxVerts /\ removeDuplicatedVertices
    \/ Len(ops) < MaxBuildOps /\ removeIsolatedVertices

SpecBuild == InitBuild /\ [][NextBuild]_vars

-----------------------------------------------------------------------------
(* The PLY codec.  A file is missing, garbage (bytes read_ply cannot parse)  *)
(* or a PLY document: the header's declarations and the element rows.  A    *)
(* number in a row is the value its decimal text denotes.                   *)

RECURSIVE Pow(_, _)
Pow(b, e) == IF e = 0 THEN 1 ELSE b * Pow(b, e - 1)

\* The number of decimal digits of a > 0.
RECURSIVE Digits(_)
Digits(a) == IF a < 10 THEN 1 ELSE 1 + Digits(a \div 10)

\* a >= 0 rounded to the nearest multiple of q, ties to even.
RoundTo(a, q) ==
    LET r == a % q
        lo == a - r
    IN  IF 2 * r > q \/ (2 * r = q /\ (lo \div q) % 2 = 1) THEN lo + q ELSE lo

\* operator<< of a float on a std::ofstream with the default precision: six
\* significant decimal digits ("nan" for NaN).
FormatFloat(x) ==
    IF fisnan(x) THEN NaN
    ELSE IF Abs(x) < Pow(10, 6) THEN x
    ELSE LET m == RoundTo(Abs(x), Pow(10, Digits(Abs(x)) - 6))
         IN  IF x < 0 THEN -m ELSE m

\* The smallest e with a < 2^(24 + e).
RECURSIVE ExpOver(_, _)
ExpOver(a, e) == IF a < Pow(2, 24 + e) THEN e ELSE ExpOver(a, e + 1)

\* The float a decimal text is read as (Float32 property): the nearest value
\* with a 24-bit mantissa.
ParseFloat(t) ==
    IF fisnan(t) THEN NaN
    ELSE LET m == RoundTo(Abs(t), Pow(2, ExpOver(Abs(t), 0)))
         IN  IF t < 0 THEN -m ELSE m

\* The Uint8 a decimal text is read as.
ParseUchar(t) == t % 256

\* face_texcoords is filled by no method of the class.
hasFaceTexcoords(m) == FALSE

\* Values a read outside texcoords may yield.
GarbageFloats == {0, NaN}

NanToZero(x) == IF fisnan(x) THEN 0 ELSE x

\* texcoords[faces[i].indices[j]], a read outside the vector when the index is
\* not one of it.
TexcoordOf(m, idx, g) ==
    IF idx \in 0..(Len(m.texcoords) - 1) THEN m.texcoords[idx + 1] ELSE <<g, g>>

\* The vertex line of vertex i.
VertexRow(m, i) ==
    [pos |-> [c \in 1..3 |-> FormatFloat(m.vertices[i][c])],
     normal |-> IF hasNormals(m)
                THEN [c \in 1..3 |-> FormatFloat(NanToZero(m.normals[i][c]))]
                ELSE <<>>,
     texcoord |-> IF hasTexcoords(m)
                  THEN [c \in 1..2 |-> FormatFloat(m.texcoords[i][c])]
                  ELSE <<>>,
     color |-> IF hasColors(m) THEN m.colors[i] ELSE <<>>]

\* The face line(s) of face i.
FaceRow(m, i, g) ==
    [verts |-> m.faces[i],
     texcoord |-> IF hasTexcoords(m) /\ ~hasFaceTexcoords(m)
                  THEN [n \in 1..6 |->
                           LET t == TexcoordOf(m, m.faces[i][((n - 1) \div 2) + 1], g)
                           IN  IF n % 2 = 1 THEN FormatFloat(t[1])
                               ELSE FormatFloat(FSub(1, t[2]))]
                  ELSE <<>>]

\* A file that is not a PLY document: kind is "missing" or "garbage".
NoDocument(kind) ==
    [kind |-> kind, has_nx |-> FALSE, has_s |-> FALSE, has_red |-> FALSE,
     has_face |-> FALSE, has_face_texcoord |-> FALSE, vertex |-> <<>>, face |-> <<>>]

\* The file saveToPlyFile writes for the mesh m.
PlyText(m, g) ==
    [kind |-> "ply",
     has_nx |-> hasNormals(m),
     has_s |-> hasTexcoords(m),
     has_red |-> hasColors(m),
     has_face |-> hasFaces(m),
     has_face_texcoord |-> hasFaces(m) /\ (hasTexcoords(m) \/ hasFaceTexcoords(m)),
     vertex |-> [i \in 1..Len(m.vertices) |-> VertexRow(m, i)],
     face |-> IF hasFaces(m) THEN [i \in 1..Len(m.faces) |-> FaceRow(m, i, g)] ELSE <<>>]

saveToPlyFile ==
    /\ running = ""
    /\ \E g \in GarbageFloats : disk' = PlyText(Mesh, g)
    /\ running' = IF /\ hasFaces(Mesh) /\ hasTexcoords(Mesh) /\ ~hasFaceTexcoords(Mesh)
                     /\ ~(Referenced(faces) \subseteq 0..(Len(texcoords) - 1))
                  THEN Undefined ELSE ""
    /\ Record("saveToPlyFile", <<>>, Mesh)
    /\ error' = ""
    /\ UNCHANGED <<vertices, colors, normals, texcoords, faces, vertex_alias, mesh_file>>

\* The number of leading faces of the file with exactly three vertices.
RECURSIVE Triangles(_, _)
Triangles(rows, i) ==
    IF i > Len(rows) \/ Len(rows[i].verts) # 3 THEN i - 1 ELSE Triangles(rows, i + 1)

\* The mesh the conversion leaves for the document d; the faces from the first
\* non-triangle on are as faces.resize() made them, here g in every index.
LoadedMesh(d, g) ==
    MeshOf([i \in 1..Len(d.vertex) |-> [c \in 1..3 |-> ParseFloat(d.vertex[i].pos[c])]],
           IF d.has_red
           THEN [i \in 1..Len(d.vertex) |-> [c \in 1..3 |-> ParseUchar(d.vertex[i].color[c])]]
           ELSE <<>>,
           IF d.has_nx
           THEN [i \in 1..Len(d.vertex) |-> [c \in 1..3 |-> ParseFloat(d.vertex[i].normal[c])]]
           ELSE <<>>,
           <<>>,
           IF d.has_face
           THEN [i \in 1..Len(d.face) |->
                    IF i <= Triangles(d.face, 1) THEN d.face[i].verts ELSE <<g, g, g>>]
           ELSE <<>>)

loadFromPlyFile ==
    /\ running = ""
    /\ IF disk.kind = "missing"
       THEN \* fopen returns NULL: ntk_ensure(mesh_file, ...) fails
            /\ mesh_file' = "none"
            /\ Leave("loadFromPlyFile", <<>>, EmptyMesh, "Could not open mesh file.")
       ELSE IF disk.kind = "garbage"
       THEN \* read_ply returns NULL: ntk_ensure(ply_file, ...) fails before fclose
            /\ mesh_file' = "open"
            /\ Leave("loadFromPlyFile", <<>>, EmptyMesh, "Could not parse mesh file.")
       ELSE \E g \in GarbageInts :
            /\ mesh_file' = "closed"
            /\ Leave("loadFromPlyFile", <<>>, LoadedMesh(disk, g),
                     IF disk.has_face /\ Triangles(disk.face, 1) < Len(disk.face)
                     THEN "Only triangles are supported."
                     ELSE "")
    /\ UNCHANGED <<vertex_alias, running, disk>>

-----------------------------------------------------------------------------
(* The codec specification: any mesh of the bounded family and any of the   *)
(* files below, then saves and loads in any order.                          *)

PlyPositions == {<<0, 1, 2>>, <<1234567, 0, -1>>}

PlyNormals == {<<0, 0, 1>>, infinite_point}

PlyMeshes ==
    UNION {
        {MeshOf(v, IF c THEN [i \in 1..n |-> ColorAt(i + 250)] ELSE <<>>, m, <<>>,
                IF f /\ n > 0 THEN <<<<0, n - 1, 0>>>> ELSE <<>>) :
            v \in [1..n -> PlyPositions],
            m \in [1..n -> PlyNormals] \cup {<<>>},
            c \in BOOLEAN, f \in BOOLEAN}
        : n \in 0..MaxPlyVerts}

\* A file with one vertex and one face of four vertices.
QuadFile ==
    [kind |-> "ply",
     has_nx |-> FALSE, has_s |-> FALSE, has_red |-> FALSE, has_face |-> TRUE,
     has_face_texcoord |-> FALSE,
     vertex |-> <<[pos |-> <<0, 0, 0>>, normal |-> <<>>, texcoord |-> <<>>, color |-> <<>>]>>,
     face |-> <<[verts |-> <<0, 0, 0, 0>>, texcoord |-> <<>>]>>]

Files == {NoDocument("missing"), NoDocument("garbage"), QuadFile}

InitPly ==
    \E m \in PlyMeshes, d \in Files :
        /\ vertices = m.vertices
        /\ colors = m.colors
        /\ normals = m.normals
        /\ texcoords = m.texcoords
        /\ faces = m.faces
        /\ vertex_alias = <<>>
        /\ ops = <<>>
        /\ snaps = <<m>>
        /\ arg = <<>>
        /\ error = ""
        /\ running = ""
        /\ mesh_file = "none"
        /\ disk = d

\* The calls of one run are capped at MaxPlyOps.
NextPly ==
    \/ Len(ops) < MaxPlyOps /\ saveToPlyFile
    \/ Len(ops) < MaxPlyOps /\ loadFromPlyFile

SpecPly == InitPly /\ [][NextPly]_vars

-----------------------------------------------------------------------------
(* History accessors used by the properties. *)

NumOps == Len(ops)

\* The last k calls were exactly the names in w, and all of them returned.
Ended(w) ==
    /\ running = ""
    /\ NumOps >= Len(w)
    /\ \A k \in 1..Len(w) : ops[NumOps - Len(w) + k] = w[k]

\* The mesh before the last k calls.
Before(k) == snaps[Len(snaps) - k]

VertexIndices(m) == 0..(Len(m.vertices) - 1)

\* The position a face corner resolves to; <<>> when the index names no vertex.
Resolve(m, k, c) ==
    IF m.faces[k][c] \in VertexIndices(m) THEN m.vertices[m.faces[k][c] + 1] ELSE <<>>

Dedup == "removeDuplicatedVertices"

Compaction == "removeIsolatedVertices"

-----------------------------------------------------------------------------
(* Topology cleanup properties. *)

\* C1: after removeDuplicatedVertices on a mesh with at least one vertex, all
\* positions finite and all face indices in range, (i) no two distinct vertex
\* indices that appear in a face have identical positions, and (ii) the vertex
\* count is unchanged and every aliased vertex carries the sentinel position and
\* is referenced by no face.
C1_DedupContract ==
    (/\ Ended(<<Dedup>>)
     /\ Len(Before(1).vertices) >= 1
     /\ AllFinite(Before(1))
     /\ InRange(Before(1)))
    =>
    /\ Referenced(faces) \subseteq VertexIndices(Mesh)
    /\ \A a, b \in Referenced(faces) \cap VertexIndices(Mesh) :
           a # b => vertices[a + 1] # vertices[b + 1]
    /\ Len(vertices) = Len(Before(1).vertices)
    /\ \A k \in DOMAIN vertex_alias :
           /\ k \in VertexIndices(Mesh)
           /\ vertices[k + 1] = infinite_point
           /\ k \notin Referenced(faces)

\* C1 witness: a finite in-range mesh in which a face referenced a vertex that the
\* call aliased to another one.
C1_Witness ==
    /\ Ended(<<Dedup>>)
    /\ Len(Before(1).vertices) >= 1
    /\ AllFinite(Before(1))
    /\ InRange(Before(1))
    /\ DOMAIN vertex_alias \cap Referenced(Before(1).faces) # {}
    /\ Cardinality(Referenced(Before(1).faces)) >= 2

\* The indices of m whose position equals p.
Coincident(m, p) == {i \in VertexIndices(m) : PointEq(m.vertices[i + 1], p)}

\* C2: in a mesh in which several vertex indices share one position and are
\* referenced by faces, after removeDuplicatedVertices then removeIsolatedVertices
\* exactly one vertex is at that position, every face corner that referenced one
\* of the coincident indices references that vertex, and every face corner
\* resolves to the position it had before the two calls.
C2_DedupThenCompact ==
    Ended(<<Dedup, Compaction>>) =>
        LET m0 == Before(2)
        IN  \A p \in {m0.vertices[i] : i \in 1..Len(m0.vertices)} :
                (/\ ~isnan(p)
                 /\ Cardinality(Coincident(m0, p) \cap Referenced(m0.faces)) >= 2)
                =>
                /\ Cardinality(Coincident(Mesh, p)) = 1
                /\ \A k \in 1..Len(m0.faces), c \in 1..3 :
                       m0.faces[k][c] \in Coincident(m0, p)
                           => faces[k][c] \in Coincident(Mesh, p)
                /\ \A k \in 1..Len(m0.faces), c \in 1..3 :
                       Resolve(Mesh, k, c) = Resolve(m0, k, c)

\* C2 on the meshes whose positions are all finite and whose face indices are all
\* in range.
C2_FiniteInRange ==
    (/\ Ended(<<Dedup, Compaction>>)
     /\ AllFinite(Before(2))
     /\ InRange(Before(2)))
    =>
        LET m0 == Before(2)
        IN  \A p \in {m0.vertices[i] : i \in 1..Len(m0.vertices)} :
                Cardinality(Coincident(m0, p) \cap Referenced(m0.faces)) >= 2
                =>
                /\ Cardinality(Coincident(Mesh, p)) = 1
                /\ \A k \in 1..Len(m0.faces), c \in 1..3 :
                       m0.faces[k][c] \in Coincident(m0, p)
                           => faces[k][c] \in Coincident(Mesh, p)
                /\ \A k \in 1..Len(m0.faces), c \in 1..3 :
                       Resolve(Mesh, k, c) = Resolve(m0, k, c)

\* C3: after removeIsolatedVertices every vertex of the mesh is referenced by at
\* least one face.
C3_CompactionDensity ==
    Ended(<<Compaction>>) => VertexIndices(Mesh) \subseteq Referenced(faces)

\* C4: starting from a mesh whose face indices are all in range, after any
\* completed cleanup pass every face index is an index of the vertex array and
\* names a vertex that was neither removed nor sentineled.
C4_FaceIndicesValid ==
    (/\ InRange(snaps[1])
     /\ (Ended(<<Dedup>>) \/ Ended(<<Compaction>>)))
    =>
    /\ Referenced(faces) \subseteq VertexIndices(Mesh)
    /\ Ended(<<Dedup>>) => Referenced(faces) \cap DOMAIN vertex_alias = {}

\* C8: for a mesh with finite vertices and in-range face indices, a second
\* removeDuplicatedVertices then removeIsolatedVertices changes nothing: the second
\* deduplication aliases nothing and the mesh after the second pair is the mesh
\* after the first.
C8_CleanupIdempotent ==
    (/\ Ended(<<Dedup, Compaction, Dedup, Compaction>>)
     /\ AllFinite(Before(4))
     /\ InRange(Before(4)))
    =>
    /\ vertex_alias = <<>>
    /\ Before(1) = Before(2)
    /\ Mesh = Before(2)

\* C8 witness: the first pair merged duplicates that faces referenced, and the
\* second pair has run.
C8_Witness ==
    /\ Ended(<<Dedup, Compaction, Dedup, Compaction>>)
    /\ AllFinite(Before(4))
    /\ InRange(Before(4))
    /\ Len(Before(2).vertices) < Len(Before(4).vertices)
    /\ Before(3).faces # Before(4).faces
    /\ Len(colors) = Len(vertices)
    /\ Len(vertices) >= 2

\* The new index of the surviving vertex i of m: the number of finite vertices
\* before it.
Rank(m, i) == Cardinality({j \in 0..(i - 1) : ~isnan(m.vertices[j + 1])})

Survivors(m) == {i \in VertexIndices(m) : ~isnan(m.vertices[i + 1])}

\* C12: removeIsolatedVertices keeps every face, in order; a face index that
\* referred to a surviving vertex becomes that vertex's new index, one that
\* referred to a dropped (NaN) vertex becomes -1; the surviving vertices keep
\* their relative order and are numbered 0..k-1 without gaps.
C12_CompactionRemap ==
    Ended(<<Compaction>>) =>
        LET m0 == Before(1)
        IN  /\ Len(faces) = Len(m0.faces)
            /\ \A k \in 1..Len(m0.faces), c \in 1..3 :
                   m0.faces[k][c] \in VertexIndices(m0) =>
                       faces[k][c] = IF m0.faces[k][c] \in Survivors(m0)
                                     THEN Rank(m0, m0.faces[k][c])
                                     ELSE -1
            /\ Len(vertices) = Cardinality(Survivors(m0))
            /\ \A i \in Survivors(m0) :
                   /\ Rank(m0, i) \in VertexIndices(Mesh)
                   /\ vertices[Rank(m0, i) + 1] = m0.vertices[i + 1]
            /\ \A i, j \in Survivors(m0) : i < j => Rank(m0, i) < Rank(m0, j)

\* C12 witness: a face referred to a dropped vertex and to a surviving vertex
\* that came after it, so the survivor was renumbered.
C12_Witness ==
    /\ Ended(<<Compaction>>)
    /\ \E k \in 1..Len(Before(1).faces) :
           \E c, d \in 1..3 :
               /\ Before(1).faces[k][c] \in VertexIndices(Before(1)) \ Survivors(Before(1))
               /\ Before(1).faces[k][d] \in Survivors(Before(1))
               /\ Before(1).faces[k][c] < Before(1).faces[k][d]
               /\ faces[k][c] = -1
               /\ faces[k][d] # Before(1).faces[k][d]

\* C13: removeDuplicatedVertices called on a mesh with no vertices returns: the
\* loop bound does not wrap, the loop body is never run, and the mesh is left
\* as it was.
C13_EmptyDedupTerminates ==
    (/\ NumOps >= 1
     /\ ops[NumOps] = Dedup
     /\ Len(Before(1).vertices) = 0)
    =>
    /\ running = ""
    /\ ~BoundWraps(Len(Before(1).vertices))
    /\ ~EntersScan(Len(Before(1).vertices))
    /\ Mesh = Before(1)

-----------------------------------------------------------------------------
(* Builder and merge properties. *)

\* C5: after any sequence of completed mutating operations on a mesh that starts
\* empty, each of colors, normals and texcoords is empty or has exactly
\* vertices.size() entries.
C5_AttributeLengths ==
    (running = "" /\ error = "") =>
        /\ Len(colors) \in {0, Len(vertices)}
        /\ Len(normals) \in {0, Len(vertices)}
        /\ Len(texcoords) \in {0, Len(vertices)}

\* C6: for a receiver with n >= 1 vertices and colors and an operand with colors,
\* after addMesh the vertices are the old vertices followed by the operand's, the
\* colors the old colors followed by the operand's, and the faces the old faces
\* followed by the operand's faces with each index increased by n.
C6_MergeColored ==
    (/\ Ended(<<"addMesh">>)
     /\ Len(Before(1).vertices) >= 1
     /\ hasColors(Before(1))
     /\ hasColors(arg))
    =>
    LET old == Before(1)
        n == Len(old.vertices)
    IN  /\ error = ""
        /\ vertices = old.vertices \o arg.vertices
        /\ colors = old.colors \o arg.colors
        /\ Len(faces) = Len(old.faces) + Len(arg.faces)
        /\ \A k \in 1..Len(old.faces) : faces[k] = old.faces[k]
        /\ \A k \in 1..Len(arg.faces), c \in 1..3 :
               faces[Len(old.faces) + k][c] = arg.faces[k][c] + n

\* C6 witness: a colored receiver with faces has merged a colored operand that has
\* vertices and a face.
C6_Witness ==
    /\ Ended(<<"addMesh">>)
    /\ Len(Before(1).vertices) >= 1
    /\ hasColors(Before(1))
    /\ hasColors(arg)
    /\ Len(arg.vertices) >= 2
    /\ Len(arg.faces) >= 1
    /\ Len(Before(1).faces) >= 1
    /\ Len(faces) > Len(Before(1).faces)

\* C7: for a receiver with at least one vertex, addMesh fails with the merge error
\* whenever the receiver has colors or normals at the time of the call that the
\* operand lacks.
C7_MergeMismatchFails ==
    (/\ Ended(<<"addMesh">>)
     /\ Len(Before(1).vertices) >= 1
     /\ \/ hasColors(Before(1)) /\ ~hasColors(arg)
        \/ hasNormals(Before(1)) /\ ~hasNormals(arg))
    => error = MergeError

\* C11: for a receiver with n >= 1 vertices that has normals and an operand with
\* at least one vertex that has normals, after addMesh the normals are the old
\* normals followed by the operand's, their length is the new vertex count and the
\* receiver still has normals.
C11_MergeNormals ==
    (/\ Ended(<<"addMesh">>)
     /\ error = ""
     /\ Len(Before(1).vertices) >= 1
     /\ hasNormals(Before(1))
     /\ Len(arg.vertices) >= 1
     /\ hasNormals(arg))
    =>
    /\ normals = Before(1).normals \o arg.normals
    /\ Len(normals) = Len(vertices)
    /\ hasNormals(Mesh)

\* C14: when addMesh on a receiver with vertices fails with the merge error, the
\* receiver's vertices, colors, normals and faces are what they were before the
\* call.
C14_FailedMergeUnchanged ==
    (/\ Ended(<<"addMesh">>)
     /\ error = MergeError
     /\ Len(Before(1).vertices) >= 1)
    =>
    /\ vertices = Before(1).vertices
    /\ colors = Before(1).colors
    /\ normals = Before(1).normals
    /\ faces = Before(1).faces

-----------------------------------------------------------------------------
(* Codec properties. *)

\* C9: the file handle loadFromPlyFile opened is closed on every exit path of the
\* call: normal return, failure to parse the file, rejection of a non-triangular
\* face.
C9_FileClosed ==
    Ended(<<"loadFromPlyFile">>) => mesh_file # "open"

\* C10: for a mesh with vertices, normals, colors and triangle faces,
\* saveToPlyFile then loadFromPlyFile yields the same vertex and face counts,
\* identical positions, colors and face index triples, and the original normals
\* with each NaN coordinate read back as 0.
C10_RoundTrip ==
    (/\ Ended(<<"saveToPlyFile", "loadFromPlyFile">>)
     /\ Len(Before(2).vertices) >= 1
     /\ hasNormals(Before(2))
     /\ hasColors(Before(2))
     /\ hasFaces(Before(2)))
    =>
    LET m0 == Before(2)
    IN  /\ error = ""
        /\ Len(vertices) = Len(m0.vertices)
        /\ Len(faces) = Len(m0.faces)
        /\ vertices = m0.vertices
        /\ colors = m0.colors
        /\ faces = m0.faces
        /\ normals = [i \in 1..Len(m0.normals) |->
                         [c \in 1..3 |-> NanToZero(m0.normals[i][c])]]

====
